---- MODULE Spec2Model ----
(***************************************************************************)
(* Model of textSummarizer/components/data_ingestion.py: DataIngestion     *)
(* with _fix_github_url, _validate_zip_file, download_file and             *)
(* extract_zip_file.                                                       *)
(*                                                                         *)
(* The file system holds one file of interest, config.local_data_file,     *)
(* and one directory, config.unzip_dir.  The network (urlretrieve), the    *)
(* zip library (zipfile.ZipFile) and the os calls (makedirs, remove) are   *)
(* the environment: each call either succeeds or raises, chosen            *)
(* nondeterministically.                                                   *)
(***************************************************************************)
EXTENDS Integers, Sequences, FiniteSets

VARIABLES
    file,        \* what is stored at config.local_data_file: NoFile or a body
    file0,       \* what was stored there when the operation was called
    stack,       \* download_file: one entry per active call, its position
    exc,         \* the exception being raised or handled, or NoExc
    outcome,     \* what the top-level call gave its caller
    hist,        \* the calls made to the environment so far, in order
    source_URL,  \* config.source_URL
    requested,   \* the url= argument urlretrieve was last called with
    url,         \* _fix_github_url: its argument, as host and path segments
    fixed,       \* _fix_github_url: its result
    vresult,     \* _validate_zip_file: its result when called on its own
    pc,          \* position of the single-step operations and of extract_zip_file
    unzip,       \* config.unzip_dir: [existed, exists, paths]
    log          \* extract_zip_file: the logger.info / logger.error lines

vars == <<file, file0, stack, exc, outcome, hist, source_URL, requested, url, fixed,
          vresult, pc, unzip, log>>

(***************************************************************************)
(* Bounds of the model.                                                    *)
(***************************************************************************)
MaxDepth == 3      \* nesting of download_file calls the model follows
MaxTail == 2       \* bytes after the leading signature of a file body
MaxSegs == 4       \* path segments of a URL
MaxEntries == 7    \* entries of an archive

(***************************************************************************)
(* Bytes and file bodies.  A body is its bytes, whether zipfile can read   *)
(* its central directory, and the entry names zipfile then lists.          *)
(***************************************************************************)
NoFile == [present |-> FALSE, bytes |-> <<>>, central |-> "bad", names |-> <<>>]
NoExc == [type |-> "none", msg |-> "none", detail |-> <<>>]

Min(a, b) == IF a < b THEN a ELSE b

SeqsUpTo(S, n) == UNION {[1..k -> S] : k \in 0..n}

\* bytes.startswith(prefix)
startswith(b, p) == Len(b) >= Len(p) /\ SubSeq(b, 1, Len(p)) = p

\* f.read(n) on a freshly opened file; b[:n]
read(b, n) == SubSeq(b, 1, Min(n, Len(b)))

DOCTYPE == <<"<", "!", "D", "O", "C", "T", "Y", "P", "E">>
HTMLTAG == <<"<", "h", "t", "m", "l">>
PK == <<"P", "K">>

SignatureLen == 100
HexLen == 20

Body(bytes, central, names) ==
    [present |-> TRUE, bytes |-> bytes, central |-> central, names |-> names]

\* os.path.exists / os.path.getsize
exists(f) == f.present
getsize(f) == Len(f.bytes)

Raised(type, msg, detail) == [type |-> type, msg |-> msg, detail |-> detail]
Passed == [ok |-> TRUE, exc |-> NoExc]
Failed(e) == [ok |-> FALSE, exc |-> e]

\* zipfile.ZipFile(path, 'r'): the names, or BadZipFile
ZipFile(f) ==
    IF f.central = "ok"
    THEN [ok |-> TRUE, names |-> f.names, exc |-> NoExc]
    ELSE [ok |-> FALSE, names |-> <<>>,
          exc |-> Raised("BadZipFile", "File is not a zip file", <<>>)]

(***************************************************************************)
(* _validate_zip_file(file_path): True, or the exception raised.           *)
(***************************************************************************)
MutValidateSignatureFirst(f) ==
    IF ~exists(f)
    THEN Failed(Raised("FileNotFoundError", "File not found", <<>>))
    ELSE LET first_bytes == read(f.bytes, SignatureLen)
             zip_test == ZipFile(f)
         IN  IF ~startswith(first_bytes, PK)
             THEN Failed(Raised("ValueError", "File is not a ZIP file. First bytes",
                                read(first_bytes, HexLen)))
             ELSE IF startswith(first_bytes, DOCTYPE) \/ startswith(first_bytes, HTMLTAG)
             THEN Failed(Raised("ValueError",
                                "Downloaded HTML page instead of ZIP file. Check the URL.", <<>>))
             ELSE IF getsize(f) = 0
             THEN Failed(Raised("ValueError", "Downloaded file is empty", <<>>))
             ELSE IF ~zip_test.ok
             THEN Failed(Raised("BadZipFile", "Corrupted ZIP file", <<zip_test.exc.msg>>))
             ELSE Passed

_validate_zip_file(f) ==
    IF ~exists(f)
    THEN Failed(Raised("FileNotFoundError", "File not found", <<>>))
    ELSE LET file_size == getsize(f)
             first_bytes == read(f.bytes, SignatureLen)
             zip_test == ZipFile(f)
         IN  IF file_size = 0
             THEN Failed(Raised("ValueError", "Downloaded file is empty", <<>>))
             ELSE IF startswith(first_bytes, DOCTYPE) \/ startswith(first_bytes, HTMLTAG)
             THEN Failed(Raised("ValueError",
                                "Downloaded HTML page instead of ZIP file. Check the URL.", <<>>))
             ELSE IF ~startswith(first_bytes, PK)
             THEN Failed(Raised("ValueError", "File is not a ZIP file. First bytes",
                                read(first_bytes, HexLen)))
             ELSE IF ~zip_test.ok
             THEN Failed(Raised("BadZipFile", "Corrupted ZIP file", <<zip_test.exc.msg>>))
             ELSE Passed

(***************************************************************************)
(* URLs.  A URL is a sequence of atoms, each standing for the characters   *)
(* it spells; "/" and ":" occur in no atom but "/" and "https:", and no     *)
(* atom is spelled by joining others, so a Python substring test or         *)
(* replacement of "github.com" or "/blob/" on the characters is the same    *)
(* test or replacement on the atoms.                                        *)
(***************************************************************************)
GITHUB == <<"github.com">>
RAW == <<"raw.githubusercontent.com">>
BLOB == <<"/", "blob", "/">>
SLASH == <<"/">>

RECURSIVE Path(_)
Path(segs) == IF segs = <<>> THEN <<>> ELSE <<"/", Head(segs)>> \o Path(Tail(segs))

\* the text of the URL with this host and these path segments
Render(host, segs) == <<"https:", "/", "/">> \o host \o Path(segs)

\* Python: old in s
Contains(s, old) ==
    \E i \in 1..(Len(s) - Len(old) + 1) : SubSeq(s, i, i + Len(old) - 1) = old

\* Python: s.replace(old, new), every occurrence, left to right, not overlapping
RECURSIVE replace(_, _, _)
replace(s, old, new) ==
    IF Len(s) < Len(old) THEN s
    ELSE IF SubSeq(s, 1, Len(old)) = old
    THEN new \o replace(SubSeq(s, Len(old) + 1, Len(s)), old, new)
    ELSE <<Head(s)>> \o replace(Tail(s), old, new)

_fix_github_url(u) ==
    IF Contains(u, GITHUB) /\ Contains(u, BLOB)
    THEN LET fixed_url == replace(u, GITHUB, RAW)
         IN  replace(fixed_url, BLOB, SLASH)
    ELSE u

Hosts == {GITHUB, <<"gist.", "github.com">>, <<"example.com">>, RAW}
SegAtoms == {"org", "blob", "github.com", "data.zip"}
URLs == [host : Hosts, segs : SeqsUpTo(SegAtoms, MaxSegs)]

(***************************************************************************)
(* download_file.  stack holds the position of every active call, the      *)
(* innermost last.  hist records each call to the environment.             *)
(***************************************************************************)
ZipBody == Body(PK \o <<"x">>, "ok", <<"a">>)
EmptyBody == Body(<<>>, "bad", <<>>)
HtmlBody == Body(DOCTYPE \o <<"x">>, "bad", <<>>)
TextBody == Body(<<"x", "P", "K">>, "bad", <<>>)
TruncatedZip == Body(PK \o <<"x">>, "bad", <<>>)

\* what the server may send, and what may be on disk beforehand
Bodies == {ZipBody, EmptyBody, HtmlBody, TextBody, TruncatedZip}

SourceURLs == {Render(GITHUB, <<"org", "repo", "blob", "main", "data.zip">>),
               Render(<<"example.com">>, <<"data.zip">>)}

NoDir == [existed |-> FALSE, exists |-> FALSE, paths |-> {}]
NoUrl == [host |-> <<>>, segs |-> <<>>]

Running == [status |-> "running", exc |-> NoExc]
Returned == [status |-> "returned", exc |-> NoExc]
Propagated(e) == [status |-> "raised", exc |-> e]

\* what download_file never touches
Idle == UNCHANGED <<file0, url, fixed, vresult, pc, unzip, log>>

top == stack[Len(stack)]
depth == Len(stack)
Front(s) == SubSeq(s, 1, Len(s) - 1)
Goto(label) == [stack EXCEPT ![Len(stack)] = label]
Event(op, ok) == [op |-> op, ok |-> ok, depth |-> depth, exc |-> NoExc]
Failure(op, e) == [op |-> op, ok |-> FALSE, depth |-> depth, exc |-> e]

\* an exception raised inside the try block of the innermost call (line 67)
Raise(op, e) ==
    /\ stack' = Goto("except")
    /\ exc' = e
    /\ hist' = Append(hist, Failure(op, e))

IsCaught(e) == e.type \in {"ValueError", "BadZipFile"}

\* line 68: if not os.path.exists(self.config.local_data_file)
CheckExists ==
    /\ stack # <<>> /\ top = "start"
    /\ stack' = Goto(IF exists(file) THEN "validate_existing" ELSE "makedirs")
    /\ hist' = Append(hist, Event("exists", exists(file)))
    /\ UNCHANGED <<file, exc, outcome, source_URL, requested>>
    /\ Idle

\* line 70: os.makedirs(dirname, exist_ok=True)
Makedirs ==
    /\ stack # <<>> /\ top = "makedirs"
    /\ \/ /\ stack' = Goto("urlretrieve")
          /\ hist' = Append(hist, Event("makedirs", TRUE))
          /\ UNCHANGED exc
       \/ Raise("makedirs", Raised("OSError", "makedirs", <<>>))
    /\ UNCHANGED <<file, outcome, source_URL, requested>>
    /\ Idle

\* lines 72-82: download_url = _fix_github_url(source_URL); urlretrieve(...)
Urlretrieve ==
    /\ stack # <<>> /\ top = "urlretrieve"
    /\ requested' = _fix_github_url(source_URL)
    /\ \/ \E body \in Bodies :
             /\ file' = body
             /\ stack' = Goto("validate_new")
             /\ hist' = Append(hist, Event("urlretrieve", TRUE))
             /\ UNCHANGED exc
       \/ \E left \in {NoFile, TruncatedZip} :
             /\ file' = left
             /\ Raise("urlretrieve", Raised("URLError", "urlopen error", <<>>))
    /\ UNCHANGED <<outcome, source_URL>>
    /\ Idle

\* lines 85-86 left out: the downloaded file is taken as it is
MutValidateNewSkipped ==
    /\ stack # <<>> /\ top = "validate_new"
    /\ stack' = Goto("return")
    /\ UNCHANGED <<file, exc, hist, outcome, source_URL, requested>>
    /\ Idle

\* line 85 handled like line 94: an invalid download is removed and fetched again
MutValidateNewRetries ==
    /\ stack # <<>> /\ top = "validate_new"
    /\ LET r == _validate_zip_file(file)
       IN  IF r.ok
           THEN /\ stack' = Goto("return")
                /\ hist' = Append(hist, Event("validate_new", TRUE))
                /\ UNCHANGED exc
           ELSE IF IsCaught(r.exc)
           THEN /\ stack' = Goto("remove_invalid")
                /\ exc' = r.exc
                /\ hist' = Append(hist, Failure("validate_new", r.exc))
           ELSE Raise("validate_new", r.exc)
    /\ UNCHANGED <<file, outcome, source_URL, requested>>
    /\ Idle

\* lines 85-86: validation of the file just downloaded
ValidateNew ==
    /\ stack # <<>> /\ top = "validate_new"
    /\ LET r == _validate_zip_file(file)
       IN  IF r.ok
           THEN /\ stack' = Goto("return")
                /\ hist' = Append(hist, Event("validate_new", TRUE))
                /\ UNCHANGED exc
           ELSE Raise("validate_new", r.exc)
    /\ UNCHANGED <<file, outcome, source_URL, requested>>
    /\ Idle

\* lines 93-100 without the validation: an existing file is always replaced
MutValidateExistingAlwaysRefresh ==
    /\ stack # <<>> /\ top = "validate_existing"
    /\ stack' = Goto("remove_invalid")
    /\ hist' = Append(hist, Event("validate_existing", TRUE))
    /\ UNCHANGED <<file, exc, outcome, source_URL, requested>>
    /\ Idle

\* lines 89-97: validation of the file found on disk
ValidateExisting ==
    /\ stack # <<>> /\ top = "validate_existing"
    /\ LET r == _validate_zip_file(file)
       IN  IF r.ok
           THEN /\ stack' = Goto("return")
                /\ hist' = Append(hist, Event("validate_existing", TRUE))
                /\ UNCHANGED exc
           ELSE IF IsCaught(r.exc)
           THEN /\ stack' = Goto("remove_invalid")
                /\ exc' = r.exc
                /\ hist' = Append(hist, Failure("validate_existing", r.exc))
           ELSE Raise("validate_uncaught", r.exc)
    /\ UNCHANGED <<file, outcome, source_URL, requested>>
    /\ Idle

\* line 98 left out: the invalid file stays when download_file is re-entered
MutRemoveInvalidKeepsFile ==
    /\ stack # <<>> /\ top = "remove_invalid"
    /\ stack' = Goto("recurse")
    /\ hist' = Append(hist, Event("remove_invalid", TRUE))
    /\ exc' = NoExc
    /\ UNCHANGED <<file, outcome, source_URL, requested>>
    /\ Idle

\* line 98: os.remove(self.config.local_data_file), inside the except of line 95
RemoveInvalid ==
    /\ stack # <<>> /\ top = "remove_invalid"
    /\ \/ /\ file' = NoFile
          /\ stack' = Goto("recurse")
          /\ hist' = Append(hist, Event("remove_invalid", TRUE))
          /\ exc' = NoExc
       \/ /\ Raise("remove_invalid", Raised("OSError", "remove", <<>>))
          /\ UNCHANGED file
    /\ UNCHANGED <<outcome, source_URL, requested>>
    /\ Idle

\* line 100: return self.download_file()
Recurse ==
    /\ stack # <<>> /\ top = "recurse"
    /\ depth < MaxDepth
    /\ stack' = Append(Goto("call"), "start")
    /\ hist' = Append(hist, Event("recurse", TRUE))
    /\ UNCHANGED <<file, exc, outcome, source_URL, requested>>
    /\ Idle

\* the end of the try block, or of the recursive call: the call returns
Return ==
    /\ stack # <<>> /\ top = "return"
    /\ IF depth = 1
       THEN stack' = <<>> /\ outcome' = Returned
       ELSE stack' = [Front(stack) EXCEPT ![depth - 1] = "return"] /\ UNCHANGED outcome
    /\ UNCHANGED <<file, exc, hist, source_URL, requested>>
    /\ Idle

\* lines 102-109 retrying: after the cleanup of an invalid download the
\* except clause calls download_file again instead of raising
MutExceptRedownloads ==
    /\ stack # <<>> /\ top = "except"
    /\ IF exists(file) /\ IsCaught(exc)
       THEN /\ file' = NoFile
            /\ hist' = Append(hist, Event("cleanup", TRUE))
            /\ stack' = Goto("recurse")
            /\ UNCHANGED <<exc, outcome>>
       ELSE /\ UNCHANGED <<file, exc, hist>>
            /\ IF depth = 1
               THEN stack' = <<>> /\ outcome' = Propagated(exc)
               ELSE stack' = [Front(stack) EXCEPT ![depth - 1] = "except"] /\ UNCHANGED outcome
    /\ UNCHANGED <<source_URL, requested>>
    /\ Idle

\* lines 102-109: except Exception: remove the file if present, then raise.
\* An os.remove that raises here replaces the exception being handled.
Except ==
    /\ stack # <<>> /\ top = "except"
    /\ \E removed \in BOOLEAN :
          /\ IF ~exists(file)
             THEN removed /\ UNCHANGED <<file, exc, hist>>
             ELSE IF removed
             THEN /\ file' = NoFile
                  /\ hist' = Append(hist, Event("cleanup", TRUE))
                  /\ UNCHANGED exc
             ELSE /\ exc' = Raised("OSError", "remove", <<>>)
                  /\ hist' = Append(hist, Failure("cleanup", exc'))
                  /\ UNCHANGED file
          /\ IF depth = 1
             THEN stack' = <<>> /\ outcome' = Propagated(exc')
             ELSE stack' = [Front(stack) EXCEPT ![depth - 1] = "except"] /\ UNCHANGED outcome
    /\ UNCHANGED <<source_URL, requested>>
    /\ Idle

Init ==
    /\ file \in {NoFile} \cup Bodies
    /\ file0 = file
    /\ stack = <<"start">>
    /\ exc = NoExc
    /\ outcome = Running
    /\ hist = <<>>
    /\ source_URL \in SourceURLs
    /\ requested = <<>>
    /\ url = NoUrl
    /\ fixed = <<>>
    /\ vresult = Passed
    /\ pc = "idle"
    /\ unzip = NoDir
    /\ log = <<>>

Next ==
    \/ CheckExists
    \/ Makedirs
    \/ Urlretrieve
    \/ ValidateNew
    \/ ValidateExisting
    \/ RemoveInvalid
    \/ Recurse
    \/ Return
    \/ Except

Spec == Init /\ [][Next]_vars

(***************************************************************************)
(* Reading the history of a download_file call.                            *)
(***************************************************************************)
Done == outcome.status # "running"
Events(op) == {i \in DOMAIN hist : hist[i].op = op}
Count(op) == Cardinality(Events(op))
Oks(op) == {i \in Events(op) : hist[i].ok}
Fails(op) == {i \in Events(op) : ~hist[i].ok}
Transfers == Count("urlretrieve")
\* the calls of the history, by name
Ops == [i \in DOMAIN hist |-> hist[i].op]
IsPrefix(s, t) == Len(s) <= Len(t) /\ s = SubSeq(t, 1, Len(s))
\* the failures that reached the except clause of line 102 from the try block
Uncaught == {i \in DOMAIN hist :
                /\ ~hist[i].ok
                /\ hist[i].op \in {"makedirs", "urlretrieve", "validate_new",
                                   "validate_uncaught", "remove_invalid"}}
ContentInvalid(f) ==
    exists(f) /\ ~_validate_zip_file(f).ok /\ IsCaught(_validate_zip_file(f).exc)
ContentValid(f) == exists(f) /\ _validate_zip_file(f).ok

ReturnedMeansValidated ==
    outcome.status = "returned" =>
        /\ exists(file)
        /\ _validate_zip_file(file).ok
        /\ hist # <<>>
        /\ hist[Len(hist)].op \in {"validate_new", "validate_existing"}
        /\ hist[Len(hist)].ok

ReturnedMeansValidatedWitness ==
    /\ outcome.status = "returned"
    /\ ContentInvalid(file0)
    /\ Transfers = 1
    /\ ContentValid(file)

\* C3: when download_file raises, the destination file is absent and the
\* exception is the first one that reached the except clause, in type and
\* message.
FailureCleansAndPreserves ==
    outcome.status = "raised" =>
        /\ ~exists(file)
        /\ \E i \in Uncaught :
              /\ \A j \in Uncaught : i <= j
              /\ outcome.exc.type = hist[i].exc.type
              /\ outcome.exc.msg = hist[i].exc.msg

\* C6 as stated: from an absent destination file, a download that fails
\* validation is followed by exactly one more download before the call ends.
FreshInvalidIsRedownloaded ==
    (Done /\ ~exists(file0) /\ Fails("validate_new") # {}) => Transfers = 2

\* C6: from an absent destination file the call goes exists, makedirs,
\* urlretrieve, validation and ends, returned (VALID) or raised (FAILED): a
\* download that fails validation ends the call by raising with no second
\* download.  The remove-and-download-once cycle is entered only from a
\* destination file that was present and failed validation.  A finished
\* call has returned or raised, and has returned only with a valid file.
AcquireStateMachine ==
    /\ Done => /\ stack = <<>>
               /\ outcome.status \in {"returned", "raised"}
               /\ outcome.status = "returned" => ContentValid(file)
    /\ ~Done => stack # <<>>
    /\ ~exists(file0) =>
          /\ IsPrefix(SelectSeq(Ops, LAMBDA o : o # "cleanup"),
                      <<"exists", "makedirs", "urlretrieve", "validate_new">>)
          /\ depth <= 1
          /\ (Done /\ Fails("validate_new") # {}) =>
                outcome.status = "raised" /\ Transfers = 1
    /\ \A i \in Events("urlretrieve") :
          hist[i].depth > 1 =>
             /\ ContentInvalid(file0)
             /\ \E j \in Oks("remove_invalid") : j < i
             /\ hist[i].depth = 2

AcquireStateMachineWitness ==
    /\ Done /\ ~exists(file0)
    /\ Fails("validate_new") # {}
    /\ Transfers = 1
    /\ outcome.status = "raised"
    /\ ~exists(file)

\* C8: one top-level call makes at most one transfer; a download that fails
\* validation is never followed by another download, and a file is removed
\* for re-download only after validation of a pre-existing file failed.
AtMostOneTransfer ==
    /\ Transfers <= 1
    /\ \A i \in Fails("validate_new") : \A j \in Events("urlretrieve") : j < i
    /\ \A i \in Events("remove_invalid") :
          /\ i > 1
          /\ hist[i - 1].op = "validate_existing"
          /\ ~hist[i - 1].ok
          /\ exists(file0)

AtMostOneTransferWitness ==
    /\ Done
    /\ exists(file0)
    /\ Transfers = 1
    /\ Fails("validate_new") # {}
    /\ outcome.exc.type = "BadZipFile"

\* C9: when the destination file exists and passes validation, the call
\* returns having made no transfer, removed nothing and left the file as it
\* was.
ValidExistingUntouched ==
    ContentValid(file0) =>
        /\ file = file0
        /\ Transfers = 0
        /\ Count("remove_invalid") = 0 /\ Count("cleanup") = 0
        /\ Count("makedirs") = 0
        /\ Done => outcome.status = "returned"
        /\ Len(hist) >= 2 => stack \in {<<>>, <<"return">>}

ValidExistingUntouchedWitness ==
    /\ ContentValid(file0)
    /\ outcome.status = "returned"
    /\ file = file0
    /\ Ops = <<"exists", "validate_existing">>

(***************************************************************************)
(* _validate_zip_file called on its own, on every file of a family built   *)
(* around the signatures it tests.                                         *)
(***************************************************************************)
Prefixes == {<<>>, DOCTYPE, HTMLTAG, PK, <<"P">>, <<"K", "P">>,
             <<"<", "!", "D", "O", "C", "T", "Y", "P">>, <<"<", "h", "t", "m">>,
             <<"<", "H", "T", "M", "L">>, <<" ">> \o HTMLTAG}
TailBytes == {"P", "K", "E", "l"}
Contents == {p \o t : p \in Prefixes, t \in SeqsUpTo(TailBytes, MaxTail)}
Files == {NoFile}
         \cup {Body(b, "bad", <<>>) : b \in Contents}
         \cup {Body(b, "ok", <<"a">>) : b \in Contents \ {<<>>}}

InitValidate ==
    /\ file \in Files
    /\ file0 = file
    /\ stack = <<>>
    /\ exc = NoExc
    /\ outcome = Running
    /\ hist = <<>>
    /\ source_URL = <<>>
    /\ requested = <<>>
    /\ url = NoUrl
    /\ fixed = <<>>
    /\ vresult = Passed
    /\ pc = "validate"
    /\ unzip = NoDir
    /\ log = <<>>

Validate ==
    /\ pc = "validate"
    /\ vresult' = _validate_zip_file(file)
    /\ pc' = "validated"
    /\ UNCHANGED <<file, file0, stack, exc, outcome, hist, source_URL, requested,
                   url, fixed, unzip, log>>

NextValidate == Validate

SpecValidate == InitValidate /\ [][NextValidate]_vars

\* the error kinds of the checks, by exception type and message
Kind(r) ==
    IF r.ok THEN "Success"
    ELSE IF r.exc.type = "FileNotFoundError" THEN "NotFoundError"
    ELSE IF r.exc.type = "BadZipFile" THEN "CorruptArchiveError"
    ELSE IF r.exc.msg = "Downloaded file is empty" THEN "EmptyFileError"
    ELSE IF r.exc.msg = "Downloaded HTML page instead of ZIP file. Check the URL."
    THEN "WrongContentTypeError"
    ELSE IF r.exc.msg = "File is not a ZIP file. First bytes" THEN "NotAnArchiveError"
    ELSE "Other"

BeginsWith(b, sig) == \A i \in DOMAIN sig : i \in DOMAIN b /\ b[i] = sig[i]
HtmlSignature(b) == BeginsWith(b, DOCTYPE) \/ BeginsWith(b, HTMLTAG)
Occurs(b, sig) == \E k \in 0..Len(b) : \A i \in DOMAIN sig : k + i \in DOMAIN b /\ b[k + i] = sig[i]

\* C4: the result is that of the first failing check in the order not
\* found, zero size, HTML signature, no PK prefix, unreadable archive: an
\* empty file gives EmptyFileError, a file beginning with an HTML signature
\* gives WrongContentTypeError whatever follows, and the call succeeds
\* exactly when the file exists, is not empty, begins with PK and has a
\* readable archive structure.
ValidateOrder ==
    pc = "validated" =>
        LET b == file.bytes
            k == Kind(vresult)
        IN  /\ ~file.present => k = "NotFoundError"
            /\ (file.present /\ b = <<>>) => k = "EmptyFileError"
            /\ (file.present /\ HtmlSignature(b)) => k = "WrongContentTypeError"
            /\ (file.present /\ b # <<>> /\ ~HtmlSignature(b) /\ ~BeginsWith(b, PK)) =>
                  k = "NotAnArchiveError"
            /\ (file.present /\ BeginsWith(b, PK) /\ file.central = "bad") =>
                  k = "CorruptArchiveError"
            /\ (file.present /\ BeginsWith(b, PK) /\ file.central = "ok") => k = "Success"
            /\ k # "Other"

ValidateOrderWitness ==
    /\ pc = "validated"
    /\ BeginsWith(file.bytes, DOCTYPE)
    /\ Occurs(file.bytes, PK)
    /\ file.central = "ok"
    /\ Kind(vresult) = "WrongContentTypeError"

(***************************************************************************)
(* _fix_github_url called on its own, on every URL of a family of hosts    *)
(* and paths.                                                              *)
(***************************************************************************)
InitUrl ==
    /\ url \in URLs
    /\ fixed = <<>>
    /\ pc = "fix"
    /\ file = NoFile
    /\ file0 = NoFile
    /\ stack = <<>>
    /\ exc = NoExc
    /\ outcome = Running
    /\ hist = <<>>
    /\ source_URL = <<>>
    /\ requested = <<>>
    /\ vresult = Passed
    /\ unzip = NoDir
    /\ log = <<>>

FixUrl ==
    /\ pc = "fix"
    /\ fixed' = _fix_github_url(Render(url.host, url.segs))
    /\ pc' = "fixed"
    /\ UNCHANGED <<file, file0, stack, exc, outcome, hist, source_URL, requested,
                   url, vresult, unzip, log>>

NextUrl == FixUrl

SpecUrl == InitUrl /\ [][NextUrl]_vars

\* a "blob" segment with a path after it, as in .../blob/<ref>/<file>
HasBlobSegment(segs) == \E i \in 1..(Len(segs) - 1) : segs[i] = "blob"

RECURSIVE RemoveFirst(_, _)
RemoveFirst(segs, x) ==
    IF segs = <<>> THEN <<>>
    ELSE IF Head(segs) = x THEN Tail(segs)
    ELSE <<Head(segs)>> \o RemoveFirst(Tail(segs), x)

\* C5: a URL on github.com with a "blob" path segment becomes the URL on
\* raw.githubusercontent.com with that segment removed; every other URL is
\* returned unchanged.
NormalizeUrlAsClaimed ==
    pc = "fixed" =>
        IF url.host = GITHUB /\ HasBlobSegment(url.segs)
        THEN fixed = Render(RAW, RemoveFirst(url.segs, "blob"))
        ELSE fixed = Render(url.host, url.segs)

(***************************************************************************)
(* extract_zip_file.  A path is a sequence of components; the entries of   *)
(* an archive are relative paths.                                          *)
(***************************************************************************)
unzip_dir == <<"out">>
Pool == <<"a", "b", "c">>
\* nine relative paths, EntryName(0) .. EntryName(8)
EntryName(k) == <<Pool[((k \div 3) % 3) + 1], Pool[(k % 3) + 1]>>
\* archives of 0..MaxEntries entries: distinct names in two orders, or one
\* name repeated
NameLists == {[i \in 1..n |-> EntryName((s + i * step) % 9)] :
                 n \in 0..MaxEntries, s \in 0..8, step \in 0..2}
Archives == {Body(PK, "ok", names) : names \in NameLists}
SampleCount == 5

Info(text, n, name) == [level |-> "info", text |-> text, n |-> n, name |-> name]
Error(text) == [level |-> "error", text |-> text, n |-> 0, name |-> <<>>]

\* zip_ref.extractall(unzip_path) for the first k entries of file_list
Extracted(file_list, k) == {unzip_dir \o file_list[i] : i \in 1..k}

\* lines 133-138: the sample of extracted names
MutSampleLinesFromZero(file_list) ==
    IF file_list # <<>>
    THEN <<Info("Sample extracted files:", 0, <<>>)>>
         \o [i \in 1..Min(SampleCount, Len(file_list)) |->
                Info("sample", i - 1, file_list[i])]
         \o (IF Len(file_list) > SampleCount
             THEN <<Info("more files", Len(file_list) - SampleCount, <<>>)>>
             ELSE <<>>)
    ELSE <<>>

SampleLines(file_list) ==
    IF file_list # <<>>
    THEN <<Info("Sample extracted files:", 0, <<>>)>>
         \o [i \in 1..Min(SampleCount, Len(file_list)) |->
                Info("sample", (i - 1) + 1, file_list[i])]
         \o (IF Len(file_list) > SampleCount
             THEN <<Info("more files", Len(file_list) - SampleCount, <<>>)>>
             ELSE <<>>)
    ELSE <<>>

Rest == UNCHANGED <<file, file0, stack, source_URL, requested, url, fixed, vresult>>

XRaise(op, e) ==
    /\ pc' = "except"
    /\ exc' = e
    /\ hist' = Append(hist, Failure(op, e))

\* lines 119-120 placed before line 117
MutExtractValidateAfterMakedirs ==
    /\ pc = "validate"
    /\ unzip' = [unzip EXCEPT !.exists = TRUE]
    /\ LET r == _validate_zip_file(file)
       IN  IF r.ok
           THEN /\ pc' = "makedirs"
                /\ hist' = Append(hist, Event("validate", TRUE))
                /\ UNCHANGED exc
           ELSE XRaise("validate", r.exc)
    /\ UNCHANGED <<outcome, log>>
    /\ Rest

\* line 117: self._validate_zip_file(self.config.local_data_file)
ExtractValidate ==
    /\ pc = "validate"
    /\ LET r == _validate_zip_file(file)
       IN  IF r.ok
           THEN /\ pc' = "makedirs"
                /\ hist' = Append(hist, Event("validate", TRUE))
                /\ UNCHANGED exc
           ELSE XRaise("validate", r.exc)
    /\ UNCHANGED <<outcome, unzip, log>>
    /\ Rest

\* lines 119-122: os.makedirs(unzip_path, exist_ok=True)
ExtractMakedirs ==
    /\ pc = "makedirs"
    /\ \/ /\ unzip' = [unzip EXCEPT !.exists = TRUE]
          /\ pc' = "open"
          /\ hist' = Append(hist, Event("makedirs", TRUE))
          /\ log' = Append(log, Info("Extracting ZIP file to", 0, unzip_dir))
          /\ UNCHANGED exc
       \/ /\ XRaise("makedirs", Raised("OSError", "makedirs", <<>>))
          /\ UNCHANGED <<unzip, log>>
    /\ UNCHANGED outcome
    /\ Rest

\* lines 124-127: zipfile.ZipFile(...), namelist(), the count logged
ExtractOpen ==
    /\ pc = "open"
    /\ LET zip_ref == ZipFile(file)
       IN  IF zip_ref.ok
           THEN /\ pc' = "extractall"
                /\ hist' = Append(hist, Event("open", TRUE))
                /\ log' = Append(log, Info("Extracting files", Len(zip_ref.names), <<>>))
                /\ UNCHANGED exc
           ELSE /\ XRaise("open", zip_ref.exc)
                /\ UNCHANGED log
    /\ UNCHANGED <<outcome, unzip>>
    /\ Rest

\* line 130: zip_ref.extractall(unzip_path); it may stop part way and raise,
\* and what it wrote stays
ExtractAll ==
    /\ pc = "extractall"
    /\ LET file_list == ZipFile(file).names
       IN  \/ /\ unzip' = [unzip EXCEPT !.paths = @ \cup Extracted(file_list, Len(file_list))]
              /\ pc' = "log"
              /\ hist' = Append(hist, Event("extractall", TRUE))
              /\ UNCHANGED exc
           \/ \E k \in 0..(Len(file_list) - 1) :
                 /\ unzip' = [unzip EXCEPT !.paths = @ \cup Extracted(file_list, k)]
                 /\ XRaise("extractall", Raised("OSError", "extractall", <<>>))
    /\ UNCHANGED <<outcome, log>>
    /\ Rest

\* lines 132-140: the sample lines, the completion line, and the return
ExtractLog ==
    /\ pc = "log"
    /\ log' = log \o SampleLines(ZipFile(file).names)
                  \o <<Info("ZIP extraction completed successfully!", 0, <<>>)>>
    /\ pc' = "done"
    /\ outcome' = Returned
    /\ UNCHANGED <<exc, hist, unzip>>
    /\ Rest

\* lines 142-151: both except clauses log and re-raise
ExtractExcept ==
    /\ pc = "except"
    /\ log' = log \o (IF exc.type = "BadZipFile"
                      THEN <<Error("ZIP file error"), Error("Possible causes:"),
                             Error("1. Downloaded file is corrupted"),
                             Error("2. Wrong URL (downloaded HTML instead of ZIP)"),
                             Error("3. File is not actually a ZIP file")>>
                      ELSE <<Error("Extraction failed")>>)
    /\ pc' = "done"
    /\ outcome' = Propagated(exc)
    /\ UNCHANGED <<exc, hist, unzip>>
    /\ Rest

InitExtract ==
    /\ file \in ({NoFile} \cup Bodies \cup Archives)
    /\ file0 = file
    /\ \E e \in BOOLEAN : unzip = [existed |-> e, exists |-> e, paths |-> {}]
    /\ pc = "validate"
    /\ stack = <<>>
    /\ exc = NoExc
    /\ outcome = Running
    /\ hist = <<>>
    /\ log = <<>>
    /\ source_URL = <<>>
    /\ requested = <<>>
    /\ url = NoUrl
    /\ fixed = <<>>
    /\ vresult = Passed

NextExtract ==
    \/ ExtractValidate
    \/ ExtractMakedirs
    \/ ExtractOpen
    \/ ExtractAll
    \/ ExtractLog
    \/ ExtractExcept

SpecExtract == InitExtract /\ [][NextExtract]_vars

Samples == SelectSeq(log, LAMBDA l : l.text = "sample")
Remainders == SelectSeq(log, LAMBDA l : l.text = "more files")

\* C7: after extract_zip_file returns on an archive of n entries, every
\* entry is under unzip_dir at its own relative path and nothing else is;
\* the log holds min(n, 5) sample names numbered from 1 in archive order,
\* and one remainder line, with count n - 5, exactly when n > 5.
ExtractAllAndSample ==
    outcome.status = "returned" =>
        LET names == file.names
            n == Len(names)
        IN  /\ unzip.exists
            /\ \A i \in 1..n : unzip_dir \o names[i] \in unzip.paths
            /\ \A p \in unzip.paths :
                  /\ IsPrefix(unzip_dir, p)
                  /\ \E i \in 1..n : SubSeq(p, Len(unzip_dir) + 1, Len(p)) = names[i]
            /\ Len(Samples) = Min(n, 5)
            /\ \A i \in 1..Len(Samples) : Samples[i].n = i /\ Samples[i].name = names[i]
            /\ IF n > 5
               THEN Len(Remainders) = 1 /\ Remainders[1].n = n - 5
               ELSE Remainders = <<>>

ExtractAllAndSampleWitness ==
    /\ outcome.status = "returned"
    /\ Len(file.names) = 7
    /\ Len(Samples) = 5
    /\ Len(Remainders) = 1 /\ Remainders[1].n = 2
    /\ Cardinality(unzip.paths) = 7

\* C10: validation is the first thing extract_zip_file does, before the
\* directory is made or an entry extracted; when it fails the call raises
\* that exception, the directory is as it was and nothing is extracted.
ExtractValidatesFirst ==
    /\ hist # <<>> => hist[1].op = "validate"
    /\ (unzip.exists # unzip.existed \/ unzip.paths # {}) =>
          /\ hist # <<>> /\ hist[1].op = "validate" /\ hist[1].ok
          /\ ContentValid(file)
    /\ (hist # <<>> /\ ~hist[1].ok) =>
          /\ Len(hist) = 1
          /\ unzip.exists = unzip.existed /\ unzip.paths = {}
          /\ pc \in {"except", "done"}
          /\ Done => outcome = Propagated(hist[1].exc)

ExtractValidatesFirstWitness ==
    /\ Done
    /\ hist # <<>> /\ ~hist[1].ok
    /\ outcome.status = "raised" /\ outcome.exc.type = "ValueError"
    /\ ~unzip.exists

====
